---- MODULE Spec2Model ----
(***************************************************************************)
(* Traffic dashboard: the sliding-window forecaster                        *)
(* (src/src/predictor.py), the temperature simulator                       *)
(* (src/src/temperature_sim.py), the traffic simulator                     *)
(* (src/src/traffic_detection.py), the remote weather collaborator         *)
(* (src/src/weather.py) and the session logic of the dashboard             *)
(* (src/src/server.py).                                                    *)
(*                                                                         *)
(* Units.  Instants are whole minutes (minute 0 is a Monday, 00:00).       *)
(* Temperatures are tenths of a degree Celsius, the resolution round(.,1)  *)
(* leaves.  Intermediate real values of the simulators are thousandths.    *)
(* The least-squares fit is computed in exact rational arithmetic; the     *)
(* code computes it in IEEE doubles.                                       *)
(***************************************************************************)
EXTENDS Integers, Sequences, FiniteSets, TLC

VARIABLES
    window_size,     \* TrafficPredictor.window_size
    history_times,   \* TrafficPredictor.history_times
    history_counts,  \* TrafficPredictor.history_counts
    history_temps,   \* TrafficPredictor.history_temps
    now,             \* the wall clock read by datetime.now()
    model,           \* TrafficPredictor.model: the coefficients of the last fit
    inserted,        \* history variable: every triple add_datapoint stored, in call order
    ret,             \* the last forecaster call: its arguments, its result, its intermediates
    base_flow,       \* TrafficSimulator.base_flow
    variance,        \* TrafficSimulator.variance
    sample,          \* the TrafficSimulator call: its arguments, then its results
    reading,         \* the _calculate_temperature call: its arguments, then its results
    forecast,        \* the TemperatureSimulator.get_forecast call: arguments, then result
    weather,         \* the WeatherAPI call: the HTTP exchange it meets, then its outcome
    session,         \* st.session_state of the dashboard (history lists, update stamps)
    pc,              \* the dashboard's position in one run of main()
    ticks,           \* history variable: the number of update_data calls of the session
    runs,            \* history variable: the number of runs of main() of the session
    generated,       \* history variable: every (timestamp, count) the session stored
    plot             \* what the last create_traffic_plot drew

dashVars == <<session, pc, ticks, runs, generated, plot>>

vars == <<window_size, history_times, history_counts, history_temps, model, now,
          inserted, ret, base_flow, variance, sample, reading, forecast, weather,
          dashVars>>

predictorVars == <<window_size, history_times, history_counts, history_temps, model,
                   now, inserted, ret>>

-----------------------------------------------------------------------------
(* Program constants *)

MinPoints == 5
CongestionHorizon == 5
DefaultHorizon == 15
MinutesPerHour == 60
HoursPerDay == 24
BaseTemp == 27000
DailyAmplitude == 7
PeakHour == 14
TroughHour == 5
DaysPerWeek == 7
DefaultBaseFlow == 100
DefaultVariance == 20
MorningStart == 8
MorningEnd == 11
EveningStart == 16
EveningEnd == 20
FirstWeekendDay == 5
LateNightFrom == 23
EarlyMorningTo == 5
PeakHourPercent == 200
OffPeakPercent == 70
WeekendPercent == 80
RainPercent == 130
HighTempPercent == 120
SessionBaseFlow == 100
SessionVariance == 20
SessionWindow == 30
HistoryMinutes == 30
SeedPoints == 5
RefreshSeconds == 5
CongestionThreshold == 150
PlotHorizon == 15

-----------------------------------------------------------------------------
(* Bounds of the model *)

MaxWindow == 5
SmallWindow == 2
MaxAdds == 6
LongHorizon == 61
StartNow == 0
MaxForecastHours == 3
MaxBodyHours == 2
MaxRuns == 6

(* window_size values a forecaster is constructed with *)
WindowSizes == {0, SmallWindow, MaxWindow}

(* (count, temperature) arguments of add_datapoint; the temperature is omitted
   (None) or supplied *)
AddArgs ==
    { [count |-> 100, temperature |-> [given |-> FALSE, value |-> 0]],
      [count |-> 104, temperature |-> [given |-> TRUE, value |-> 300]] }

(* draws of np.random.normal(0, noise_amplitude), in thousandths of a degree *)
CurrentNoises == {0}

(* arguments and draws of an add_datapoint that is never followed by a fit *)
AddArgsWide ==
    { [count |-> 100, temperature |-> [given |-> FALSE, value |-> 0]],
      [count |-> 104, temperature |-> [given |-> TRUE, value |-> 0]],
      [count |-> 104, temperature |-> [given |-> TRUE, value |-> 300]] }
CurrentNoisesWide == {0, 400}
ForecastNoises == {0, 400}

(* minutes_ahead arguments of predict_next *)
Horizons == {-1, 0, 1, DefaultHorizon, MinutesPerHour, LongHorizon}

(* threshold arguments of check_congestion *)
Thresholds == {100, 103}

(* TrafficSimulator(base_flow, variance) configurations *)
BaseFlows == {0, 100}
Variances == {-20, 0, 20}

(* draws of the standard normal behind np.random.normal(0, scale), in tenths:
   the noise is scale * z *)
NormalDraws == {-90, 0, 15}

(* minutes of the hour of the sampled instants *)
SampleMinutes == {0, 30}

(* draws of np.random.normal(0, noise_amplitude) of a single reading, thousandths *)
ReadingNoises == {-1000, 0, 1000}

(* what requests.get meets: the transport's outcome, the status of the response *)
Transports == {"ok", "ConnectionError", "TooManyRedirects"}
StatusCodes == {200, 401, 404, 500, 503}
(* temp_c of the response body, tenths of a degree *)
BodyTemps == {0, 305}

(* minutes between two runs of main() of one session *)
Elapsed == {0, 1, 13}
(* standard-normal draws of the samples the dashboard generates *)
SessionDraws == {0, 15}
(* the draws of the SeedPoints samples that seed an empty session history *)
SeedDrawings == { [ i \in 1..SeedPoints |-> z ] : z \in SessionDraws }

(* hours arguments of a direct get_forecast call *)
ForecastLengths == -1..MaxForecastHours

-----------------------------------------------------------------------------
(* Arithmetic helpers *)

Abs(x) == IF x < 0 THEN -x ELSE x

(* int(x) of Python and astype(int) of numpy for the rational num/den, den > 0:
   truncation toward zero *)
TruncDiv(num, den) ==
    IF num >= 0 THEN num \div den ELSE -((-num) \div den)

RECURSIVE SumSeq(_)
SumSeq(s) == IF s = <<>> THEN 0 ELSE Head(s) + SumSeq(Tail(s))

RECURSIVE DotSeq(_, _)
DotSeq(a, b) ==
    IF a = <<>> THEN 0 ELSE Head(a) * Head(b) + DotSeq(Tail(a), Tail(b))

(* Python's lst[start:] *)
PySliceFrom(lst, start) ==
    LET n == Len(lst)
        s == IF start < 0
             THEN (IF start + n < 0 THEN 0 ELSE start + n)
             ELSE (IF start > n THEN n ELSE start)
    IN  SubSeq(lst, s + 1, n)

-----------------------------------------------------------------------------
(* TemperatureSimulator *)

(* np.sin(2*pi*k/24) for whole k, in thousandths *)
SinTable ==
    <<    0,  259,  500,  707,  866,  966, 1000,  966,  866,  707,  500,  259,
          0, -259, -500, -707, -866, -966, -1000, -966, -866, -707, -500, -259 >>

SinHour(k) == SinTable[(k % HoursPerDay) + 1]

(* np.sin(2*pi*m/1440) for a whole number m of minutes, in thousandths:
   linear between the whole hours *)
SinMinute(m) ==
    LET k == m \div MinutesPerHour
        r == m % MinutesPerHour
    IN  (SinHour(k) * (MinutesPerHour - r) + SinHour(k + 1) * r) \div MinutesPerHour

(* the minute of the day of an instant: timestamp.hour * 60 + timestamp.minute *)
MinuteOfDay(timestamp) == timestamp % (HoursPerDay * MinutesPerHour)

(* base_temp + daily_amplitude * sin(2*pi*(hour - 5)/24 - phase_shift), thousandths,
   with phase_shift = (14 - 5) * (2*pi/24) *)
CurveAt(timestamp) ==
    LET hourMinutes == MinuteOfDay(timestamp)
        phase_shift == (PeakHour - TroughHour) * MinutesPerHour
    IN  BaseTemp + DailyAmplitude *
            SinMinute(hourMinutes - TroughHour * MinutesPerHour - phase_shift)

(* round(x, 1): thousandths to tenths, halves to even *)
RoundTenth(v) ==
    LET q == v \div 100
        r == v % 100
    IN  IF r > 50 \/ (r = 50 /\ q % 2 = 1) THEN q + 1 ELSE q

(* _calculate_temperature(timestamp) with the noise draw made explicit *)
CalculateTemperature(timestamp, noise) == RoundTenth(CurveAt(timestamp) + noise)

NoReading == [ op |-> "none", timestamp |-> 0, noise |-> 0, curve |-> 0, temp |-> 0 ]

(* one call of _calculate_temperature(timestamp) whose draw is noise *)
CalculateTemperatureCall ==
    /\ reading.op = "call"
    /\ reading' = [reading EXCEPT !.op = "_calculate_temperature",
                                  !.curve = CurveAt(reading.timestamp),
                                  !.temp = CalculateTemperature(reading.timestamp,
                                                                reading.noise)]
    /\ UNCHANGED <<predictorVars, base_flow, variance, sample, forecast, weather, dashVars>>

(* a forecast whose first point is an hour after the present instant *)
GetForecastFromNextHour(current_time, hours, noises) ==
    [ i \in 1..hours |->
        [ time |-> current_time + i * MinutesPerHour,
          temp |-> CalculateTemperature(current_time + i * MinutesPerHour,
                                        noises[i]) ] ]

(* get_forecast(hours): noises[i] is the draw of point i (1-based here) *)
GetForecast(current_time, hours, noises) ==
    [ i \in 1..hours |->
        [ time |-> current_time + (i - 1) * MinutesPerHour,
          temp |-> CalculateTemperature(current_time + (i - 1) * MinutesPerHour,
                                        noises[i]) ] ]

NoForecast == [ op |-> "none", hours |-> 0, data |-> <<>> ]

(* one call of get_forecast(hours) at the instant now *)
GetForecastCall(noises) ==
    /\ forecast.op = "call"
    /\ forecast' = [forecast EXCEPT !.op = "get_forecast",
                                    !.data = GetForecast(now, forecast.hours, noises)]
    /\ UNCHANGED <<predictorVars, base_flow, variance, sample, reading, weather,
                   dashVars>>

-----------------------------------------------------------------------------
(* WeatherAPI *)

NoWeather ==
    [ op |-> "none", transport |-> "ok", status |-> 200, body_valid |-> TRUE,
      temp_c |-> 0, hour_count |-> 0, raised |-> "none", is_none |-> FALSE,
      value |-> 0, list |-> <<>> ]

(* the subclasses of requests.RequestException among the exceptions of the model *)
RequestExceptions == {"ConnectionError", "TooManyRedirects", "HTTPError"}

(* "except requests.ConnectionError": an error status is not caught *)
CaughtConnectionOnly(exception) == exception = "ConnectionError"

(* "except requests.RequestException as e" *)
Caught(exception) == exception \in RequestExceptions

(* response.raise_for_status(): HTTPError for a 4xx or 5xx status *)
RaiseForStatus(status) ==
    IF status >= 400 /\ status < 600 THEN "HTTPError" ELSE "none"

(* the exception the try block ends with, "none" if it runs to its return: requests.get
   raises the transport's error, raise_for_status the status's, and a body without the
   expected keys raises KeyError at the subscript *)
TryBlock(w) ==
    IF w.transport # "ok" THEN w.transport
    ELSE IF RaiseForStatus(w.status) # "none" THEN RaiseForStatus(w.status)
    ELSE IF ~w.body_valid THEN "KeyError"
    ELSE "none"

(* data['forecast']['forecastday'][0]['hour'] of the body: one entry per hour of the
   day, "YYYY-MM-DD HH:MM" kept as its fields *)
BodyHours(w) ==
    [ i \in 1..w.hour_count |->
        [ time |-> [day |-> 0, hour |-> i - 1, minute |-> 0],
          temp_c |-> w.temp_c + i ] ]

(* datetime.strptime(hour['time'], "%Y-%m-%d %H:%M"), as a minute count *)
ParseTime(t) == (t.day * HoursPerDay + t.hour) * MinutesPerHour + t.minute

(* WeatherAPI.get_current_temperature() *)
WeatherGetCurrentTemperature ==
    /\ weather.op = "call_current"
    /\ \E exception \in {TryBlock(weather)} :
          weather' =
            IF exception = "none"
            THEN [weather EXCEPT !.op = "get_current_temperature",
                                 !.value = weather.temp_c]
            ELSE IF Caught(exception)
            THEN [weather EXCEPT !.op = "get_current_temperature", !.is_none = TRUE]
            ELSE [weather EXCEPT !.op = "get_current_temperature",
                                 !.raised = exception]
    /\ UNCHANGED <<predictorVars, base_flow, variance, sample, reading, forecast,
                   dashVars>>

(* WeatherAPI.get_forecast(hours) *)
WeatherGetForecast ==
    /\ weather.op = "call_forecast"
    /\ \E exception \in {TryBlock(weather)} :
          weather' =
            IF exception = "none"
            THEN [weather EXCEPT
                    !.op = "get_forecast",
                    !.list = [ i \in 1..Len(BodyHours(weather)) |->
                                 [ time |-> ParseTime(BodyHours(weather)[i].time),
                                   temp |-> BodyHours(weather)[i].temp_c ] ]]
            ELSE IF Caught(exception)
            THEN [weather EXCEPT !.op = "get_forecast", !.list = <<>>]
            ELSE [weather EXCEPT !.op = "get_forecast", !.raised = exception]
    /\ UNCHANGED <<predictorVars, base_flow, variance, sample, reading, forecast,
                   dashVars>>

-----------------------------------------------------------------------------
(* The dashboard's session *)

(* st.session_state before the first run: no history lists, no last_update *)
NoSession ==
    [ started |-> FALSE, history_times |-> <<>>, history_counts |-> <<>>,
      has_last_update |-> FALSE, last_update |-> 0, last_refresh |-> 0 ]

NoPlot ==
    [ made |-> FALSE, x |-> <<>>, counts |-> <<>>, temps |-> <<>>,
      future_times |-> <<>>, predictions |-> <<>> ]

-----------------------------------------------------------------------------
(* TrafficSimulator *)

NoSample ==
    [ op |-> "none", given |-> FALSE, timestamp |-> 0, at |-> 0, draw |-> 0,
      raised |-> FALSE, multiplier |-> 0, applied |-> {}, real_count |-> 0,
      timestamp_out |-> 0, count |-> 0 ]

HourOf(timestamp) == (timestamp \div MinutesPerHour) % HoursPerDay

(* datetime.weekday(): Monday is 0 *)
WeekdayOf(timestamp) == (timestamp \div (HoursPerDay * MinutesPerHour)) % DaysPerWeek

(* peak windows that include their end hour *)
IsPeakHourInclusive(hour) ==
    \/ (MorningStart <= hour /\ hour <= MorningEnd)
    \/ (EveningStart <= hour /\ hour <= EveningEnd)

(* _is_peak_hour(hour) *)
IsPeakHour(hour) ==
    \/ (MorningStart <= hour /\ hour < MorningEnd)
    \/ (EveningStart <= hour /\ hour < EveningEnd)

(* _get_time_based_multiplier(timestamp): the multiplier in hundredths, and the keys
   of self.multipliers it read *)
GetTimeBasedMultiplier(timestamp) ==
    LET hour == HourOf(timestamp)
        is_weekend == WeekdayOf(timestamp) >= FirstWeekendDay
        m0 == [value |-> 100, applied |-> {}]
        m1 == IF is_weekend
              THEN [value |-> (m0.value * WeekendPercent) \div 100,
                    applied |-> m0.applied \cup {"weekend"}]
              ELSE m0
    IN  IF IsPeakHour(hour)
        THEN [value |-> (m1.value * PeakHourPercent) \div 100,
              applied |-> m1.applied \cup {"peak_hour"}]
        ELSE IF hour >= LateNightFrom \/ hour <= EarlyMorningTo
        THEN [value |-> (m1.value * OffPeakPercent) \div 100,
              applied |-> m1.applied \cup {"off_peak"}]
        ELSE m1

(* the returned count without the max(0, ..) *)
Unclamped(count) == count

(* max(0, count) *)
ClampCount(count) == IF count < 0 THEN 0 ELSE count

(* generate_traffic_pattern(timestamp): arg.given is false for timestamp=None, z is
   the standard-normal draw behind np.random.normal(0, variance/2), which raises
   ValueError for a negative scale.  Reals are in thousandths of a vehicle. *)
GenerateTrafficPattern(arg, z) ==
    LET timestamp == IF arg.given THEN arg.value ELSE now
        multiplier == GetTimeBasedMultiplier(timestamp)
        base_count == base_flow * multiplier.value * 10
        scale2 == variance * multiplier.value * 10       \* twice the scale
        noise == TruncDiv(scale2 * z, 20)
        periodic == TruncDiv(SinMinute(MinuteOfDay(timestamp)) * base_count, 5000)
        count == base_count + noise + periodic
        call == [NoSample EXCEPT !.op = "generate_traffic_pattern",
                                 !.given = arg.given,
                                 !.timestamp = arg.value,
                                 !.at = timestamp,
                                 !.draw = z,
                                 !.multiplier = multiplier.value,
                                 !.applied = multiplier.applied]
    IN  /\ sample.op = "call"
        /\ sample' = IF scale2 < 0
                     THEN [call EXCEPT !.raised = TRUE]
                     ELSE [call EXCEPT !.real_count = count,
                                       !.timestamp_out = timestamp,
                                       !.count = ClampCount(TruncDiv(count, 1000))]
        /\ UNCHANGED <<predictorVars, base_flow, variance, reading, forecast, weather,
                       dashVars>>

(* the count generate_traffic_pattern(timestamp) returns from a simulator of the given
   base_flow and (non-negative) variance when its draw is z *)
TrafficCount(flow, var, timestamp, z) ==
    LET multiplier == GetTimeBasedMultiplier(timestamp)
        base_count == flow * multiplier.value * 10
        noise == TruncDiv(var * multiplier.value * 10 * z, 20)
        periodic == TruncDiv(SinMinute(MinuteOfDay(timestamp)) * base_count, 5000)
    IN  ClampCount(TruncDiv(base_count + noise + periodic, 1000))

-----------------------------------------------------------------------------
(* TrafficPredictor *)

(* LinearRegression() before any fit *)
Unfitted ==
    [ fitted |-> FALSE, n |-> 1, sum_t |-> 0, sum_x |-> 0, sum_y |-> 0,
      den |-> 1, coef_t |-> 0, coef_x |-> 0 ]

(* LinearRegression.fit(X, y), X = column_stack((T, temperatures)), y = Y: ordinary
   least squares with an intercept.  T is in minutes, X in tenths of a degree (the
   code's second feature is X/10), Y in vehicles.  The fitted function is
       (t, x) |-> (sum_y*den + coef_t*(n*t - sum_t) + coef_x*(n*x - sum_x)) / (n*den).
   With the centred features independent this is the unique least-squares plane;
   otherwise it is the minimum-norm solution that lstsq returns. *)
LinearRegressionFit(T, X, Y) ==
    LET n   == Len(T)
        St  == SumSeq(T)
        Sx  == SumSeq(X)
        Sy  == SumSeq(Y)
        Stt == n * DotSeq(T, T) - St * St
        Sxx == n * DotSeq(X, X) - Sx * Sx
        Stx == n * DotSeq(T, X) - St * Sx
        Sty == n * DotSeq(T, Y) - St * Sy
        Sxy == n * DotSeq(X, Y) - Sx * Sy
        D   == Stt * Sxx - Stx * Stx
        base == [ fitted |-> TRUE, n |-> n, sum_t |-> St, sum_x |-> Sx, sum_y |-> Sy,
                  den |-> 1, coef_t |-> 0, coef_x |-> 0 ]
    IN  IF D # 0
        THEN [base EXCEPT !.den = D,
                          !.coef_t = Sty * Sxx - Sxy * Stx,
                          !.coef_x = Sxy * Stt - Sty * Stx]
        ELSE IF 100 * Stt + Sxx # 0
        THEN [base EXCEPT !.den = 100 * Stt + Sxx,
                          !.coef_t = 100 * Sty,
                          !.coef_x = Sxy]
        ELSE base

(* a fit made once: a model that is already fitted is kept *)
FitOnce(old, T, X, Y) == IF old.fitted THEN old ELSE LinearRegressionFit(T, X, Y)

(* self.model.fit(X, y): every call fits self.model anew *)
FitModel(old, T, X, Y) == LinearRegressionFit(T, X, Y)

(* LinearRegression.predict on one row (t, x), then astype(int) *)
LinearRegressionPredict(m, t, x) ==
    TruncDiv(m.sum_y * m.den + m.coef_t * (m.n * t - m.sum_t)
                             + m.coef_x * (m.n * x - m.sum_x),
             m.n * m.den)

NoRet ==
    [ op |-> "init", raised |-> FALSE, minutes_ahead |-> 0, threshold |-> 0,
      base_time |-> 0, last_time |-> 0, hours |-> 0, forecast_data |-> <<>>,
      future_times |-> <<>>, predictions |-> <<>>, future_temps |-> <<>>,
      value |-> FALSE, consulted |-> FALSE,
      timestamp |-> 0, count |-> 0, temperature |-> [ given |-> FALSE, value |-> 0 ] ]

Init ==
    /\ window_size \in WindowSizes
    /\ history_times = <<>>
    /\ history_counts = <<>>
    /\ history_temps = <<>>
    /\ model = Unfitted
    /\ now = StartNow
    /\ inserted = <<>>
    /\ ret = NoRet
    /\ base_flow = DefaultBaseFlow
    /\ variance = DefaultVariance
    /\ sample = NoSample
    /\ reading = NoReading
    /\ forecast = NoForecast
    /\ weather = NoWeather
    /\ session = NoSession
    /\ pc = "idle"
    /\ ticks = 0
    /\ runs = 0
    /\ generated = {}
    /\ plot = NoPlot

(* the slice that keeps the oldest entries instead of the newest *)
KeepOldest(lst, size) ==
    IF Len(lst) > size THEN SubSeq(lst, 1, size) ELSE lst

(* "Keep only recent history": lst = lst[-window_size:] when it is too long *)
KeepRecent(lst, size) ==
    IF Len(lst) > size THEN PySliceFrom(lst, -size) ELSE lst

(* "if not temperature": a supplied 0.0 counts as omitted *)
TemperatureFalsy(temperature) == ~temperature.given \/ temperature.value = 0

(* "if temperature is None" *)
TemperatureOmitted(temperature) == ~temperature.given

(* an add_datapoint that trims the timestamps and the counts but not the
   temperatures *)
AddDatapointUntrimmedTemps(timestamp, count, temperature, noise) ==
    LET temp == IF TemperatureOmitted(temperature)
                THEN CalculateTemperature(now, noise)
                ELSE temperature.value
    IN  /\ Len(inserted) < MaxAdds
        /\ history_times' = KeepRecent(Append(history_times, timestamp), window_size)
        /\ history_counts' = KeepRecent(Append(history_counts, count), window_size)
        /\ history_temps' = Append(history_temps, temp)
        /\ inserted' = Append(inserted, <<timestamp, count, temp>>)
        /\ ret' = [NoRet EXCEPT !.op = "add_datapoint",
                                !.timestamp = timestamp,
                                !.count = count,
                                !.temperature = temperature,
                                !.consulted = TemperatureOmitted(temperature)]
        /\ now' = now + 1
        /\ UNCHANGED <<window_size, model, base_flow, variance, sample, reading,
                       forecast, weather, dashVars>>

AddDatapoint(timestamp, count, temperature, noise) ==
    LET temp == IF TemperatureOmitted(temperature)
                THEN CalculateTemperature(now, noise)
                ELSE temperature.value
    IN  /\ Len(inserted) < MaxAdds
        /\ history_times' = KeepRecent(Append(history_times, timestamp), window_size)
        /\ history_counts' = KeepRecent(Append(history_counts, count), window_size)
        /\ history_temps' = KeepRecent(Append(history_temps, temp), window_size)
        /\ inserted' = Append(inserted, <<timestamp, count, temp>>)
        /\ ret' = [NoRet EXCEPT !.op = "add_datapoint",
                                !.timestamp = timestamp,
                                !.count = count,
                                !.temperature = temperature,
                                !.consulted = TemperatureOmitted(temperature)]
        /\ now' = now + 1      \* the clock: the next sample is taken a minute later
        /\ UNCHANGED <<window_size, model, base_flow, variance, sample, reading,
                       forecast, weather, dashVars>>

(* the guard with the minimum one too small *)
TooFewPointsOffByOne(n) == n < MinPoints - 1

(* "Need minimum data points": len(self.history_times) < 5 *)
TooFewPoints(n) == n < MinPoints

(* range(minutes_ahead) without the + 1 *)
FutureTimesFromZero(last_time, minutes_ahead) ==
    [ i \in 1..minutes_ahead |-> last_time + (i - 1) ]

(* [last_time + timedelta(minutes=i+1) for i in range(minutes_ahead)] *)
FutureTimes(last_time, minutes_ahead) ==
    [ i \in 1..minutes_ahead |-> last_time + i ]

(* int(minutes_ahead / 60) + 1: one hour too many at the whole hours *)
ForecastHoursPlusOne(minutes_ahead) == TruncDiv(minutes_ahead, MinutesPerHour) + 1

(* int((minutes_ahead + 59) / 60) *)
ForecastHours(minutes_ahead) == TruncDiv(minutes_ahead + 59, MinutesPerHour)

(* min(..) that keeps the last of equally good candidates *)
RECURSIVE MinByLast(_, _, _, _)
MinByLast(forecast_data, future_time, i, best) ==
    IF i > Len(forecast_data) THEN best
    ELSE IF Abs(forecast_data[i].time - future_time)
              <= Abs(forecast_data[best].time - future_time)
         THEN MinByLast(forecast_data, future_time, i + 1, i)
         ELSE MinByLast(forecast_data, future_time, i + 1, best)

(* min(forecast_data, key=lambda x: abs(x[0] - future_time)) scanning from element i
   with the best so far at index best: a later element replaces it only when
   strictly closer *)
RECURSIVE MinBy(_, _, _, _)
MinBy(forecast_data, future_time, i, best) ==
    IF i > Len(forecast_data) THEN best
    ELSE IF Abs(forecast_data[i].time - future_time)
              < Abs(forecast_data[best].time - future_time)
         THEN MinBy(forecast_data, future_time, i + 1, i)
         ELSE MinBy(forecast_data, future_time, i + 1, best)

ClosestForecastLast(forecast_data, future_time) ==
    forecast_data[MinByLast(forecast_data, future_time, 2, 1)]

(* closest_forecast of one future_time; forecast_data is not empty *)
ClosestForecast(forecast_data, future_time) ==
    forecast_data[MinBy(forecast_data, future_time, 2, 1)]

(* the draws get_forecast makes inside predict_next(minutes_ahead) *)
ForecastDraws(minutes_ahead) ==
    IF TooFewPoints(Len(history_times)) THEN 0 ELSE ForecastHours(minutes_ahead)

(* predict_next(minutes_ahead) run on the present window: the returned triple, the
   intermediates, and the model it leaves in self.model.  predict() of an empty
   X_future (minutes_ahead <= 0) raises ValueError after the fit. *)
PredictNextRun(minutes_ahead, noises) ==
    IF TooFewPoints(Len(history_times))
    THEN [ ret |-> [NoRet EXCEPT !.minutes_ahead = minutes_ahead],
           model |-> model ]
    ELSE
    LET base_time == history_times[1]
        time_features == [ i \in 1..Len(history_times) |-> history_times[i] - base_time ]
        fit == FitModel(model, time_features, history_temps, history_counts)
        last_time == history_times[Len(history_times)]
        future_times == FutureTimes(last_time, minutes_ahead)
        hours == ForecastHours(minutes_ahead)
        forecast_data == GetForecast(now, hours, noises)
        future_temps == [ i \in 1..Len(future_times) |->
                            ClosestForecast(forecast_data, future_times[i]).temp ]
        predictions == [ i \in 1..Len(future_times) |->
                            LinearRegressionPredict(fit, future_times[i] - base_time,
                                                    future_temps[i]) ]
        common == [NoRet EXCEPT !.minutes_ahead = minutes_ahead,
                                !.base_time = base_time,
                                !.last_time = last_time,
                                !.hours = hours,
                                !.forecast_data = forecast_data]
    IN  IF Len(future_times) = 0
        THEN [ ret |-> [common EXCEPT !.raised = TRUE], model |-> fit ]
        ELSE [ ret |-> [common EXCEPT !.future_times = future_times,
                                      !.predictions = predictions,
                                      !.future_temps = future_temps],
               model |-> fit ]

(* a predict_next that consumes the window it has fitted *)
PredictNextConsuming(minutes_ahead, noises) ==
    \E run \in {PredictNextRun(minutes_ahead, noises)} :
        /\ ret' = [run.ret EXCEPT !.op = "predict_next"]
        /\ model' = run.model
        /\ history_times' = <<>>
        /\ history_counts' = <<>>
        /\ history_temps' = <<>>
        /\ UNCHANGED <<window_size, now, inserted, base_flow, variance, sample, reading,
                       forecast, weather, dashVars>>

PredictNext(minutes_ahead, noises) ==
    \E run \in {PredictNextRun(minutes_ahead, noises)} :
        /\ ret' = [run.ret EXCEPT !.op = "predict_next"]
        /\ model' = run.model
        /\ UNCHANGED <<window_size, history_times, history_counts, history_temps,
                       now, inserted, base_flow, variance, sample, reading,
                       forecast, weather, dashVars>>

(* any(count >= threshold ...) *)
RECURSIVE AnyAtLeast(_, _)
AnyAtLeast(predictions, threshold) ==
    IF predictions = <<>> THEN FALSE
    ELSE Head(predictions) >= threshold \/ AnyAtLeast(Tail(predictions), threshold)

(* any(count > threshold for count in predictions) *)
RECURSIVE AnyAbove(_, _)
AnyAbove(predictions, threshold) ==
    IF predictions = <<>> THEN FALSE
    ELSE Head(predictions) > threshold \/ AnyAbove(Tail(predictions), threshold)

(* check_congestion(threshold): predict_next(minutes_ahead=5), then any(..) *)
CheckCongestion(threshold, noises) ==
    \E run \in {PredictNextRun(CongestionHorizon, noises)} :
        /\ ret' = [run.ret EXCEPT !.op = "check_congestion",
                                  !.threshold = threshold,
                                  !.value = AnyAbove(run.ret.predictions, threshold)]
        /\ model' = run.model
        /\ UNCHANGED <<window_size, history_times, history_counts, history_temps,
                       now, inserted, base_flow, variance, sample, reading,
                       forecast, weather, dashVars>>

Next ==
    \/ \E arg \in AddArgs, noise \in CurrentNoises :
          AddDatapoint(now, arg.count, arg.temperature, noise)
    \/ \E minutes_ahead \in Horizons :
          \E noises \in [1..ForecastDraws(minutes_ahead) -> ForecastNoises] :
              PredictNext(minutes_ahead, noises)
    \/ \E threshold \in Thresholds :
          \E noises \in [1..ForecastDraws(CongestionHorizon) -> ForecastNoises] :
              CheckCongestion(threshold, noises)

Spec == Init /\ [][Next]_vars

(* The forecaster fed only: add_datapoint with every kind of temperature argument *)
NextAdd ==
    \E arg \in AddArgsWide, noise \in CurrentNoisesWide :
        AddDatapoint(now, arg.count, arg.temperature, noise)

SpecAdd == Init /\ [][NextAdd]_vars

-----------------------------------------------------------------------------
(* The dashboard: the runs of main() of one browser session.  One run is
   initialize_app, the refresh test and, when a refresh is due, update_data, the two
   forecaster calls of the metrics and create_traffic_plot. *)

(* the first run starts on a Monday at 09:00 *)
SessionStart == StartNow + 9 * MinutesPerHour

(* every index: nothing is dropped *)
AllIndices(times, cutoff_time) == [ i \in 1..Len(times) |-> i ]

RECURSIVE ValidIndicesFrom(_, _, _)
ValidIndicesFrom(times, cutoff_time, i) ==
    IF i > Len(times) THEN <<>>
    ELSE IF times[i] >= cutoff_time
         THEN <<i>> \o ValidIndicesFrom(times, cutoff_time, i + 1)
         ELSE ValidIndicesFrom(times, cutoff_time, i + 1)

(* valid_indices = [i for i, t in enumerate(history_times) if t >= cutoff_time] *)
ValidIndices(times, cutoff_time) == ValidIndicesFrom(times, cutoff_time, 1)

(* [lst[i] for i in valid_indices] *)
AtIndices(lst, valid_indices) ==
    [ k \in 1..Len(valid_indices) |-> lst[valid_indices[k]] ]

(* initialize_app(), reached elapsed minutes after the former run: a new simulator
   and a new forecaster on every call, the history lists created once, old entries
   dropped, an empty history seeded with SeedPoints samples of the last minutes *)
InitializeApp(elapsed, zs) ==
    LET current_time == now + elapsed
        cutoff_time == current_time - HistoryMinutes
        old_times == IF session.started THEN session.history_times ELSE <<>>
        old_counts == IF session.started THEN session.history_counts ELSE <<>>
        valid_indices == ValidIndices(old_times, cutoff_time)
        kept_times == AtIndices(old_times, valid_indices)
        kept_counts == AtIndices(old_counts, valid_indices)
        seed_times == [ i \in 1..SeedPoints |-> current_time - (SeedPoints - (i - 1)) ]
        seed_counts == [ i \in 1..SeedPoints |->
                           TrafficCount(SessionBaseFlow, SessionVariance,
                                        seed_times[i], zs[i]) ]
        seeded == kept_times = <<>>
    IN  /\ pc = "idle"
        /\ runs < MaxRuns
        /\ now' = current_time
        /\ runs' = runs + 1
        /\ base_flow' = SessionBaseFlow
        /\ variance' = SessionVariance
        /\ window_size' = SessionWindow
        /\ history_times' = <<>>
        /\ history_counts' = <<>>
        /\ history_temps' = <<>>
        /\ model' = Unfitted
        /\ inserted' = <<>>
        /\ ret' = NoRet
        /\ session' = [session EXCEPT
                         !.started = TRUE,
                         !.history_times = IF seeded THEN seed_times ELSE kept_times,
                         !.history_counts = IF seeded THEN seed_counts ELSE kept_counts]
        /\ generated' = IF seeded
                        THEN generated \cup
                               { <<seed_times[i], seed_counts[i]>> : i \in 1..SeedPoints }
                        ELSE generated
        /\ pc' = "initialized"
        /\ UNCHANGED <<sample, reading, forecast, weather, ticks, plot>>

(* main(): last_update is set on the first run; a refresh is due when
   update_frequency seconds have passed since last_update *)
MainRefreshTest ==
    LET last_update == IF session.has_last_update THEN session.last_update ELSE now
        due == (now - last_update) * 60 >= RefreshSeconds
    IN  /\ pc = "initialized"
        /\ session' = [session EXCEPT !.has_last_update = TRUE,
                                      !.last_update = last_update]
        /\ pc' = IF due THEN "due" ELSE "idle"
        /\ UNCHANGED <<predictorVars, base_flow, variance, sample, reading, forecast,
                       weather, ticks, runs, generated, plot>>

(* update_data(), with the last_update = current_time of main() that follows it: old
   entries dropped, one sample generated, read a temperature, appended to the
   session history and handed to predictor.add_datapoint with that temperature *)
UpdateData(z, noise) ==
    LET current_time == now
        cutoff_time == current_time - HistoryMinutes
        valid_indices == ValidIndices(session.history_times, cutoff_time)
        kept_times == AtIndices(session.history_times, valid_indices)
        kept_counts == AtIndices(session.history_counts, valid_indices)
        timestamp == current_time
        count == TrafficCount(base_flow, variance, current_time, z)
        temperature == CalculateTemperature(current_time, noise)
    IN  /\ pc = "due"
        /\ session' = [session EXCEPT
                         !.history_times = Append(kept_times, timestamp),
                         !.history_counts = Append(kept_counts, count),
                         !.last_refresh = current_time,
                         !.last_update = current_time]
        /\ history_times' = KeepRecent(Append(history_times, timestamp), window_size)
        /\ history_counts' = KeepRecent(Append(history_counts, count), window_size)
        /\ history_temps' = KeepRecent(Append(history_temps, temperature), window_size)
        /\ inserted' = Append(inserted, <<timestamp, count, temperature>>)
        /\ ret' = [NoRet EXCEPT !.op = "add_datapoint",
                                !.timestamp = timestamp,
                                !.count = count,
                                !.temperature = [given |-> TRUE, value |-> temperature]]
        /\ generated' = generated \cup {<<timestamp, count>>}
        /\ ticks' = ticks + 1
        /\ pc' = "updated"
        /\ UNCHANGED <<window_size, model, now, base_flow, variance, sample, reading,
                       forecast, weather, runs, plot>>

(* main(), the predicted-load metric: predictor.predict_next(minutes_ahead=15) *)
MetricsPredictNext(noises) ==
    \E run \in {PredictNextRun(PlotHorizon, noises)} :
        /\ pc = "updated"
        /\ ret' = [run.ret EXCEPT !.op = "predict_next"]
        /\ model' = run.model
        /\ pc' = "predicted"
        /\ UNCHANGED <<window_size, history_times, history_counts, history_temps,
                       now, inserted, base_flow, variance, sample, reading,
                       forecast, weather, session, ticks, runs, generated, plot>>

(* main(), the traffic-status metric: predictor.check_congestion(threshold) *)
MetricsCheckCongestion(noises) ==
    \E run \in {PredictNextRun(CongestionHorizon, noises)} :
        /\ pc = "predicted"
        /\ ret' = [run.ret EXCEPT !.op = "check_congestion",
                                  !.threshold = CongestionThreshold,
                                  !.value = AnyAbove(run.ret.predictions,
                                                     CongestionThreshold)]
        /\ model' = run.model
        /\ pc' = "checked"
        /\ UNCHANGED <<window_size, history_times, history_counts, history_temps,
                       now, inserted, base_flow, variance, sample, reading,
                       forecast, weather, session, ticks, runs, generated, plot>>

(* create_traffic_plot(): predict_next(minutes_ahead=15), then the traces; the
   historical temperature trace takes x from the session's history_times and y from
   the forecaster's history_temps *)
CreateTrafficPlot(noises) ==
    \E run \in {PredictNextRun(PlotHorizon, noises)} :
        /\ pc = "checked"
        /\ ret' = [run.ret EXCEPT !.op = "predict_next"]
        /\ model' = run.model
        /\ plot' = [ made |-> TRUE,
                     x |-> session.history_times,
                     counts |-> session.history_counts,
                     temps |-> history_temps,
                     future_times |-> run.ret.future_times,
                     predictions |-> run.ret.predictions ]
        /\ pc' = "idle"
        /\ UNCHANGED <<window_size, history_times, history_counts, history_temps,
                       now, inserted, base_flow, variance, sample, reading,
                       forecast, weather, session, ticks, runs, generated>>

InitDashboard ==
    /\ window_size = SessionWindow
    /\ history_times = <<>>
    /\ history_counts = <<>>
    /\ history_temps = <<>>
    /\ model = Unfitted
    /\ now = SessionStart
    /\ inserted = <<>>
    /\ ret = NoRet
    /\ base_flow = SessionBaseFlow
    /\ variance = SessionVariance
    /\ sample = NoSample
    /\ reading = NoReading
    /\ forecast = NoForecast
    /\ weather = NoWeather
    /\ session = NoSession
    /\ pc = "idle"
    /\ ticks = 0
    /\ runs = 0
    /\ generated = {}
    /\ plot = NoPlot

NextDashboard ==
    \/ \E elapsed \in Elapsed, zs \in SeedDrawings : InitializeApp(elapsed, zs)
    \/ MainRefreshTest
    \/ \E z \in SessionDraws, noise \in CurrentNoises : UpdateData(z, noise)
    \/ \E noises \in [1..ForecastDraws(PlotHorizon) -> ForecastNoises] :
          MetricsPredictNext(noises)
    \/ \E noises \in [1..ForecastDraws(CongestionHorizon) -> ForecastNoises] :
          MetricsCheckCongestion(noises)
    \/ \E noises \in [1..ForecastDraws(PlotHorizon) -> ForecastNoises] :
          CreateTrafficPlot(noises)

SpecDashboard == InitDashboard /\ [][NextDashboard]_vars

-----------------------------------------------------------------------------
(* The traffic simulator alone: a simulator of any configuration, asked once for a
   sample at an instant of the week *)

SampleInstants ==
    { (d * HoursPerDay + h) * MinutesPerHour + m :
        d \in 0..(DaysPerWeek - 1), h \in 0..(HoursPerDay - 1), m \in SampleMinutes }

InitTraffic ==
    /\ window_size = MaxWindow
    /\ history_times = <<>>
    /\ history_counts = <<>>
    /\ history_temps = <<>>
    /\ model = Unfitted
    /\ now \in {StartNow}
    /\ inserted = <<>>
    /\ ret = NoRet
    /\ base_flow \in BaseFlows
    /\ variance \in Variances
    /\ \E t \in SampleInstants, given \in BOOLEAN :
          sample = [NoSample EXCEPT !.op = "call", !.given = given,
                                    !.timestamp = IF given THEN t ELSE 0]
    /\ reading = NoReading
    /\ forecast = NoForecast
    /\ weather = NoWeather
    /\ session = NoSession
    /\ pc = "idle"
    /\ ticks = 0
    /\ runs = 0
    /\ generated = {}
    /\ plot = NoPlot

NextTraffic ==
    \E z \in NormalDraws :
        GenerateTrafficPattern([given |-> sample.given, value |-> sample.timestamp], z)

SpecTraffic == InitTraffic /\ [][NextTraffic]_vars

(* The temperature simulator alone: one reading at an instant of a day, or one
   forecast asked at an instant of a day *)

DayInstants ==
    { h * MinutesPerHour + m : h \in 0..(HoursPerDay - 1), m \in SampleMinutes }

InitTemp ==
    /\ window_size = MaxWindow
    /\ history_times = <<>>
    /\ history_counts = <<>>
    /\ history_temps = <<>>
    /\ model = Unfitted
    /\ inserted = <<>>
    /\ ret = NoRet
    /\ base_flow = DefaultBaseFlow
    /\ variance = DefaultVariance
    /\ sample = NoSample
    /\ \/ /\ now = StartNow
          /\ \E h \in 0..(HoursPerDay - 1), m \in SampleMinutes,
                noise \in ReadingNoises :
                reading = [NoReading EXCEPT !.op = "call",
                                            !.timestamp = h * MinutesPerHour + m,
                                            !.noise = noise]
          /\ forecast = NoForecast
       \/ /\ now \in DayInstants
          /\ reading = NoReading
          /\ \E hours \in ForecastLengths :
                forecast = [NoForecast EXCEPT !.op = "call", !.hours = hours]
    /\ weather = NoWeather
    /\ session = NoSession
    /\ pc = "idle"
    /\ ticks = 0
    /\ runs = 0
    /\ generated = {}
    /\ plot = NoPlot

NextTemp ==
    \/ CalculateTemperatureCall
    \/ \E noises \in [1..forecast.hours -> ReadingNoises] : GetForecastCall(noises)

SpecTemp == InitTemp /\ [][NextTemp]_vars

(* The remote weather collaborator alone: one call against one HTTP exchange *)

InitWeather ==
    /\ window_size = MaxWindow
    /\ history_times = <<>>
    /\ history_counts = <<>>
    /\ history_temps = <<>>
    /\ model = Unfitted
    /\ now = StartNow
    /\ inserted = <<>>
    /\ ret = NoRet
    /\ base_flow = DefaultBaseFlow
    /\ variance = DefaultVariance
    /\ sample = NoSample
    /\ reading = NoReading
    /\ forecast = NoForecast
    /\ \E op \in {"call_current", "call_forecast"}, transport \in Transports,
          status \in StatusCodes, body_valid \in BOOLEAN, temp_c \in BodyTemps,
          hour_count \in 0..MaxBodyHours :
          weather = [NoWeather EXCEPT !.op = op, !.transport = transport,
                                      !.status = status, !.body_valid = body_valid,
                                      !.temp_c = temp_c, !.hour_count = hour_count]
    /\ session = NoSession
    /\ pc = "idle"
    /\ ticks = 0
    /\ runs = 0
    /\ generated = {}
    /\ plot = NoPlot

NextWeather ==
    \/ WeatherGetCurrentTemperature
    \/ WeatherGetForecast

SpecWeather == InitWeather /\ [][NextWeather]_vars

-----------------------------------------------------------------------------
(* Properties of the forecaster, checked under Spec *)

(* the retained observations as triples *)
Window ==
    [ i \in 1..Len(history_times) |->
        <<history_times[i], history_counts[i], history_temps[i]>> ]

(* C1: for a forecaster constructed with any window_size >= 0, after any sequence of
   add_datapoint calls the number of retained observations is at most window_size. *)
C1_WindowBound == Len(history_times) <= window_size

(* C2: with window_size >= 1, after N add_datapoint calls the window holds the last
   min(N, window_size) inserted triples, in insertion order. *)
C2_MostRecentRetained ==
    window_size >= 1 =>
        LET N == Len(inserted)
            kept == IF N > window_size THEN window_size ELSE N
        IN  /\ Len(history_times) = kept
            /\ Len(history_counts) = kept
            /\ Len(history_temps) = kept
            /\ \A i \in 1..kept : Window[i] = inserted[N - kept + i]

(* C2 witness: more insertions than the window holds, so the oldest were evicted *)
C2_Witness ==
    /\ window_size = SmallWindow
    /\ Len(inserted) > window_size + 1
    /\ Len(history_times) = window_size
    /\ inserted[1] # inserted[Len(inserted)]

(* C3: with fewer than 5 observations predict_next returns three empty sequences,
   whatever minutes_ahead is, and does not raise. *)
C3_InsufficientData ==
    (ret.op = "predict_next" /\ Len(history_times) < 5) =>
        /\ ~ret.raised
        /\ ret.future_times = <<>>
        /\ ret.predictions = <<>>
        /\ ret.future_temps = <<>>

(* C3 witness: predict_next(LongHorizon) called on four observations *)
C3_Witness ==
    /\ ret.op = "predict_next"
    /\ Len(history_times) = 4
    /\ ret.minutes_ahead = LongHorizon
    /\ ret.future_times = <<>>

(* C4: with at least 5 observations predict_next(k), k > 0, returns three sequences
   of length k, and the i-th timestamp is the newest retained timestamp plus i
   minutes. *)
C4_PredictionShape ==
    (ret.op = "predict_next" /\ Len(history_times) >= 5 /\ ret.minutes_ahead > 0) =>
        /\ ~ret.raised
        /\ Len(ret.future_times) = ret.minutes_ahead
        /\ Len(ret.predictions) = ret.minutes_ahead
        /\ Len(ret.future_temps) = ret.minutes_ahead
        /\ \A i \in 1..ret.minutes_ahead :
              ret.future_times[i] = history_times[Len(history_times)] + i

(* C4 witness: a fitted predict_next(LongHorizon) *)
C4_Witness ==
    /\ ret.op = "predict_next"
    /\ Len(history_times) >= 5
    /\ ret.minutes_ahead = LongHorizon
    /\ Len(ret.predictions) = LongHorizon

(* C5: check_congestion(threshold) is true exactly when some count of its
   predict_next(minutes_ahead=5) is strictly above threshold; with fewer than 5
   observations it is false. *)
C5_CongestionStrict ==
    ret.op = "check_congestion" =>
        /\ ret.minutes_ahead = 5
        /\ Len(ret.predictions) = (IF Len(history_times) < 5 THEN 0 ELSE 5)
        /\ ret.value = (\E i \in DOMAIN ret.predictions :
                            ret.predictions[i] > ret.threshold)
        /\ (Len(history_times) < 5 => ret.value = FALSE)

(* C5 witness: a predicted count equal to the threshold and none above it *)
C5_Witness ==
    /\ ret.op = "check_congestion"
    /\ ret.value = FALSE
    /\ \E i \in DOMAIN ret.predictions : ret.predictions[i] = ret.threshold
    /\ \E i \in DOMAIN ret.predictions : ret.predictions[i] < ret.threshold

(* C9: only add_datapoint changes the window: a step of predict_next or of
   check_congestion leaves history_times, history_counts, history_temps and
   window_size as they were. *)
C9_WindowFrame ==
    [][ ret'.op \in {"predict_next", "check_congestion"} =>
            UNCHANGED <<history_times, history_counts, history_temps, window_size>>
      ]_vars

(* C9 witness: a predict_next that fitted, on a window that is still there *)
C9_Witness ==
    /\ ret.op = "predict_next"
    /\ Len(ret.predictions) > 0
    /\ Len(history_times) >= 5

(* the time distance of forecast point j to the i-th future timestamp of ret *)
Distance(i, j) == Abs(ret.forecast_data[j].time - ret.future_times[i])

(* C10: each returned temperature is that of the forecast point closest in time to
   the future timestamp, the first such point of the forecast when several are
   equally close. *)
C10_ClosestForecast ==
    (ret.op \in {"predict_next", "check_congestion"} /\ Len(ret.future_times) > 0) =>
        \A i \in DOMAIN ret.future_times :
            \E j \in DOMAIN ret.forecast_data :
                /\ ret.future_temps[i] = ret.forecast_data[j].temp
                /\ \A j2 \in DOMAIN ret.forecast_data : Distance(i, j) <= Distance(i, j2)
                /\ \A j2 \in 1..(j - 1) : Distance(i, j2) > Distance(i, j)

(* C10 witness: a future timestamp equally far from two forecast points of different
   temperature, given the temperature of the first *)
C10_Witness ==
    /\ ret.op = "predict_next"
    /\ Len(ret.forecast_data) >= 2
    /\ \E i \in DOMAIN ret.future_times :
          /\ Distance(i, 1) = Distance(i, 2)
          /\ ret.forecast_data[1].temp # ret.forecast_data[2].temp
          /\ ret.future_temps[i] = ret.forecast_data[1].temp

(* C11: for every positive minutes_ahead predict_next asks for a forecast of exactly
   ceil(minutes_ahead / 60) hours, so the forecast it matches against has at least
   one point. *)
C11_ForecastHorizon ==
    (ret.op \in {"predict_next", "check_congestion"} /\ Len(history_times) >= 5
        /\ ret.minutes_ahead > 0) =>
        /\ ret.hours * 60 >= ret.minutes_ahead
        /\ (ret.hours - 1) * 60 < ret.minutes_ahead
        /\ Len(ret.forecast_data) = ret.hours
        /\ Len(ret.forecast_data) >= 1

(* C11 witness: a whole hour ahead asks for one forecast hour, not two *)
C11_Witness ==
    /\ ret.op = "predict_next"
    /\ Len(history_times) >= 5
    /\ ret.minutes_ahead = 60
    /\ ret.hours = 1
    /\ Len(ret.forecast_data) = 1

(* every count a 5-minute prediction can return on the present window, over the
   draws of the temperature forecast *)
PossibleCounts ==
    UNION { { run.ret.predictions[i] : i \in 1..Len(run.ret.predictions) } :
              run \in { PredictNextRun(5, noises) : noises \in [1..1 -> {0, 400}] } }

(* C15: on a fixed history check_congestion(threshold) is false for every threshold
   that is at least the largest count the 5-minute prediction can return, whatever
   the forecast draw; raising the threshold never turns a false result true. *)
C15_ThresholdMonotone ==
    (ret.op = "check_congestion" /\ Len(history_times) >= 5) =>
        /\ (\A c \in PossibleCounts : ret.threshold >= c) => ~ret.value
        /\ ~ret.value =>
              \A t \in {ret.threshold, ret.threshold + 1, 103, 150} :
                  t >= ret.threshold =>
                      ~(\E i \in 1..Len(ret.predictions) : ret.predictions[i] > t)

(* C15 witness: threshold 100 is exactly the largest of several possible counts and
   the result is false *)
C15_Witness ==
    /\ ret.op = "check_congestion"
    /\ Len(history_times) >= 5
    /\ ret.threshold = 100
    /\ \A c \in PossibleCounts : c <= 100
    /\ 100 \in PossibleCounts
    /\ Cardinality(PossibleCounts) >= 2
    /\ ~ret.value

(* C16: a predict_next on at least 5 observations works from the window as it is at
   that call: elapsed minutes count from the oldest retained timestamp, the future
   timestamps start after the newest retained one, and the fit is that of the
   retained observations, also after an add_datapoint evicted the former oldest
   one and after earlier calls. *)
C16_PresentWindow ==
    (ret.op \in {"predict_next", "check_congestion"} /\ Len(history_times) >= 5) =>
        LET n == Len(history_times)
        IN  /\ ret.base_time = history_times[1]
            /\ ret.last_time = history_times[n]
            /\ model.fitted
            /\ model.n = n
            /\ model.sum_t = SumSeq([ i \in 1..n |-> history_times[i] - history_times[1] ])
            /\ model.sum_x = SumSeq(history_temps)
            /\ model.sum_y = SumSeq(history_counts)
            /\ Len(ret.future_times) > 0 => ret.future_times[1] = history_times[n] + 1

(* C16 witness: a prediction after an eviction, whose origin is the new oldest
   observation and no longer the first one stored *)
C16_Witness ==
    /\ ret.op = "predict_next"
    /\ Len(history_times) >= 5
    /\ Len(inserted) > Len(history_times)
    /\ ret.base_time = inserted[Len(inserted) - Len(history_times) + 1][1]
    /\ ret.base_time > inserted[1][1]
    /\ Len(ret.predictions) > 0

(* C19: after any sequence of add_datapoint, predict_next and check_congestion calls
   the three lists history_times, history_counts and history_temps have one length,
   and the entries at one index are the timestamp, count and temperature of one
   stored observation. *)
C19_ParallelLists ==
    /\ Len(history_counts) = Len(history_times)
    /\ Len(history_temps) = Len(history_times)
    /\ \A i \in 1..Len(history_times) :
          \E j \in 1..Len(inserted) :
              /\ history_times[i] = inserted[j][1]
              /\ history_counts[i] = inserted[j][2]
              /\ history_temps[i] = inserted[j][3]

(* C19 witness: the lists after evictions and a congestion check, still of one length *)
C19_Witness ==
    /\ ret.op = "check_congestion"
    /\ Len(inserted) > Len(history_times)
    /\ Len(history_times) >= 5
    /\ Len(history_temps) = Len(history_times)
    /\ Len(history_counts) = Len(history_times)

-----------------------------------------------------------------------------
(* Properties of the traffic simulator, checked under SpecTraffic *)

(* C6: generate_traffic_pattern returns an integer count >= 0 for every timestamp,
   every base_flow/variance configuration and every noise draw, and returns the
   timestamp it was given. *)
C6_NonNegativeCount ==
    sample.op = "generate_traffic_pattern" =>
        /\ ~sample.raised
        /\ sample.count \in Nat
        /\ (sample.given => sample.timestamp_out = sample.timestamp)

(* C6 as amended: the same, for every configuration whose variance is not negative. *)
C6_NonNegativeCountValidVariance ==
    (sample.op = "generate_traffic_pattern" /\ variance >= 0) =>
        /\ ~sample.raised
        /\ sample.count \in Nat
        /\ (sample.given => sample.timestamp_out = sample.timestamp)

(* C6 witness: a sample whose real-valued count is below zero, returned as 0 *)
C6_Witness ==
    /\ sample.op = "generate_traffic_pattern"
    /\ variance > 0
    /\ base_flow > 0
    /\ sample.given
    /\ sample.real_count < 0
    /\ sample.count = 0

(* the multiplier, in hundredths, that C8 states for an hour and a weekday *)
StatedMultiplier(hour, weekday) ==
    ( (IF weekday >= 5 THEN 80 ELSE 100)
      * (IF hour \in (8..10) \cup (16..19) THEN 200
         ELSE IF hour = 23 \/ hour <= 5 THEN 70
         ELSE 100) ) \div 100

(* C8: the time-based multiplier is (0.8 on a weekend, else 1.0) times (2.0 in hours
   8..10 and 16..19, else 0.7 in hour 23 and hours 0..5, else 1.0); the peak and
   off-peak factors are never both applied, the rain and high-temperature factors
   never. *)
C8_TimeMultiplier ==
    sample.op = "generate_traffic_pattern" =>
        /\ sample.multiplier =
              StatedMultiplier((sample.at \div 60) % 24, (sample.at \div 1440) % 7)
        /\ ~({"peak_hour", "off_peak"} \subseteq sample.applied)
        /\ sample.applied \cap {"rain", "high_temp"} = {}

(* C8 witness: a weekend peak hour, both factors stacked *)
C8_Witness ==
    /\ sample.op = "generate_traffic_pattern"
    /\ sample.applied = {"weekend", "peak_hour"}
    /\ sample.multiplier = 160

-----------------------------------------------------------------------------
(* Properties of the temperature curve, checked under SpecTemp *)

(* C7: over the hours of a day the noise-free curve is highest at 14:00 and lowest
   at 05:00. *)
C7_PeakAt14TroughAt5 ==
    reading.op = "_calculate_temperature" =>
        /\ reading.curve <= CurveAt(14 * 60)
        /\ reading.curve >= CurveAt(5 * 60)


-----------------------------------------------------------------------------
(* Properties of get_forecast, checked under SpecTemp *)

(* C12: get_forecast(hours) returns exactly hours points for every hours >= 0; point
   i (from 0) is stamped the present instant plus i hours, so the stamps rise one
   hour apart and the first one is the present instant. *)
C12_ForecastPoints ==
    (forecast.op = "get_forecast" /\ forecast.hours >= 0) =>
        /\ Len(forecast.data) = forecast.hours
        /\ \A i \in 1..Len(forecast.data) : forecast.data[i].time = now + (i - 1) * 60
        /\ \A i \in 1..(Len(forecast.data) - 1) :
              forecast.data[i + 1].time = forecast.data[i].time + 60
        /\ forecast.hours >= 1 => forecast.data[1].time = now

(* C12 witness: a three-hour forecast that crosses midnight *)
C12_Witness ==
    /\ forecast.op = "get_forecast"
    /\ forecast.hours = 3
    /\ now = 23 * 60 + 30
    /\ Len(forecast.data) = 3
    /\ forecast.data[1].time = now
    /\ forecast.data[3].time = now + 120

-----------------------------------------------------------------------------
(* Properties of add_datapoint, checked under SpecAdd *)

(* C13: add_datapoint stores exactly the supplied temperature whenever one is
   supplied (0.0 included) and consults the temperature generator only when the
   temperature is omitted; either way the call does not fail and appends exactly one
   observation, the supplied timestamp and count with that temperature. *)
C13_SuppliedTemperature ==
    [][ ret'.op = "add_datapoint" =>
          LET n == Len(history_temps')
              kept == n - 1
          IN  /\ ~ret'.raised
              /\ n >= 1
              /\ history_times'[n] = ret'.timestamp
              /\ history_counts'[n] = ret'.count
              /\ ret'.temperature.given => history_temps'[n] = ret'.temperature.value
              /\ ret'.consulted <=> ~ret'.temperature.given
              /\ ret'.consulted =>
                    \E noise \in {0, 400} :
                        history_temps'[n] = CalculateTemperature(now, noise)
              /\ kept <= Len(history_temps)
              /\ \A i \in 1..kept :
                    history_temps'[i] = history_temps[Len(history_temps) - kept + i]
      ]_vars

(* C13 witness: a supplied 0.0 is what the window holds, the generator was not asked *)
C13_Witness ==
    /\ ret.op = "add_datapoint"
    /\ ret.temperature.given
    /\ ret.temperature.value = 0
    /\ ~ret.consulted
    /\ history_temps[Len(history_temps)] = 0
    /\ Len(history_temps) >= 2

-----------------------------------------------------------------------------
(* Properties of the remote weather collaborator, checked under SpecWeather *)

(* C14: when the HTTP request fails, by a transport error or by an error status,
   get_current_temperature returns None and get_forecast returns an empty list, and
   no exception reaches the caller. *)
C14_RequestFailure ==
    (/\ weather.op \in {"get_current_temperature", "get_forecast"}
     /\ (weather.transport # "ok" \/ weather.status >= 400)) =>
        /\ weather.raised = "none"
        /\ weather.op = "get_current_temperature" => weather.is_none
        /\ weather.op = "get_forecast" => (~weather.is_none /\ weather.list = <<>>)

(* C14 witness: a 503 in front of a well-formed two-hour body gives an empty list *)
C14_Witness ==
    /\ weather.op = "get_forecast"
    /\ weather.transport = "ok"
    /\ weather.status = 503
    /\ weather.body_valid
    /\ weather.hour_count = 2
    /\ weather.raised = "none"
    /\ weather.list = <<>>

-----------------------------------------------------------------------------
(* Properties of the dashboard, checked under SpecDashboard *)

(* C17: every tick feeds the same forecaster: after n update_data calls of a session
   the forecaster's window holds min(n, 30) observations, and from the 5th tick on
   the dashboard's predict_next(15) and check_congestion work on at least 5
   observations and predict_next returns predictions. *)
C17_SameForecaster ==
    pc \in {"updated", "predicted", "checked"} =>
        /\ Len(history_times) = (IF ticks < 30 THEN ticks ELSE 30)
        /\ (ticks >= 5 /\ pc \in {"predicted", "checked"}) =>
              /\ Len(history_times) >= 5
              /\ Len(ret.predictions) > 0

(* C18: after every update_data call the session's history_times and history_counts
   have one length, entry i of one belongs with entry i of the other, the entries
   keep their order, no retained timestamp is older than 30 minutes before the
   call's current time, and the new sample is the last entry. *)
C18_SessionHistory ==
    pc = "updated" =>
        LET times == session.history_times
            counts == session.history_counts
            n == Len(times)
        IN  /\ Len(counts) = n
            /\ n >= 1
            /\ \A i \in 1..n : <<times[i], counts[i]>> \in generated
            /\ \A i \in 1..(n - 1) : times[i] < times[i + 1]
            /\ \A i \in 1..n : times[i] >= now - 30
            /\ times[n] = now
            /\ times[n] = ret.timestamp
            /\ counts[n] = ret.count

(* C18 witness: an update that dropped some, not all, of the older entries *)
C18_Witness ==
    /\ pc = "updated"
    /\ ticks >= 2
    /\ Len(session.history_times) >= 2
    /\ Cardinality(generated) > Len(session.history_times)
    /\ session.history_times[1] < now - 13

(* C20: whenever create_traffic_plot runs, the session's history_times and the
   forecaster's history_temps have one length, so the historical temperature trace
   pairs every plotted timestamp with a temperature. *)
C20_TemperatureTrace ==
    plot.made => Len(plot.x) = Len(plot.temps)

====
